---- MODULE Spec2Model ----
(***************************************************************************)
(* The arcade shooter of src/src/App.tsx (lines 1-359): the per-frame      *)
(* simulation step `loop`, the React state it reads and queues updates     *)
(* for, and the handlers around it.                                        *)
(*                                                                         *)
(* Lengths are in sub-pixels: SubPx units per pixel, so that the           *)
(* `level * 0.5` term of the enemy speed (line 79) is an integer.          *)
(* Math.hypot(dx, dy) < r is computed as dx*dx + dy*dy < r*r.              *)
(*                                                                         *)
(* React: state setters called from the animation-frame callback are       *)
(* queued (`queue`); React then renders (Render: the queued updaters are   *)
(* applied and the state committed) and, when a dependency of the          *)
(* game-loop effect changed, re-runs the effect (Effect: the cleanup       *)
(* cancels the pending frame and the new closure's loop() runs at once).   *)
(* Both happen before the next animation frame, so Frame waits for them.   *)
(***************************************************************************)
EXTENDS Integers, Sequences, FiniteSets, TLC

\* ---------------------------------------------------------------- constants

SubPx == 2

PlayerSpeed == 8
Margin == 30
PlayerStartOffset == 120
BulletOffset == 30
BulletSpeed == 12
HitRadius == 25
PlayerHitRadius == 40
ShootInterval == 150
Reward == 100
LevelThreshold == 2000
InvincibilityFrames == 100
InitialLives == 3
EnemySpawnOffset == 60
EnemyBaseSpeed == 3
SpawnBasePct == 2
Percent == 100
StarCap == 100
StarSpawnOffset == 10
StarBaseSpeed == 1
INITIAL_GRID_SIZE == 5

\* ------------------------------------------------------------------- bounds

\* Date.now() at page load: any value above ShootInterval
StartClock == 1000
\* The game (Spec): the clock readings it follows after StartClock (each
\* ShootInterval + 1 ms later), and the enemies alive at once
MaxClockSteps == 1
MaxEnemies == 1
\* The game on a low canvas (SpecLives): the enemies alive at once
LivesEnemies == 2
\* The slow frames (SpecHits): the frames it follows, the enemies alive at once
HitsFrames == 14
HitsEnemies == 2
\* The long game (SpecLevel): the frames it follows, the enemies alive at once
LevelFrames == 60
LevelEnemies == 3
\* The firing (SpecFire): the clock readings it follows after StartClock
FireSteps == 3
\* The spawning (SpecSpawn): the levels of the games it follows, the enemies
\* alive at once
MaxLevel == 5
SpawnEnemies == 1
\* Enemies of the two outer columns (SpecPlace): the enemies alive at once
PlaceEnemies == 2
\* Slow enemies under fire (SpecPass): the frames followed and the enemies
\* alive at once
PassFrames == 20
PassEnemies == 3
\* The colour quiz (SpecQuiz): the score its games are followed to
QuizRounds == 32

VARIABLES
    canvas,            \* canvasRef.current: [width, height]
    gameActive,        \* React state, as last committed
    isGameOver,
    score,
    lives,
    level,
    queue,             \* state updates queued since the last render
    phase,             \* "idle" | "render" | "effect": what React owes
    playerRef,         \* << >> is null, <<p>> a Player
    enemiesRef,
    bulletsRef,
    keysRef,           \* the keys whose entry is true
    lastShootTimeRef,
    clock,             \* the last value of Date.now()
    starsRef,          \* the background stars
    pendingFrames,     \* the animation-frame callbacks requested and not yet run
    gameState,         \* the colour quiz: its React state, as last committed
    colors,            \* << >> is null, <<c>> the round's colours, as last committed
    colorsQueue        \* << >>, or <<c>> the setColors(c) not yet rendered

vars == <<canvas, gameActive, isGameOver, score, lives, level, queue, phase,
          playerRef, enemiesRef, bulletsRef, keysRef, lastShootTimeRef, clock,
          starsRef, pendingFrames, gameState, colors, colorsQueue>>

\* What only loop writes besides the game, and the state of the colour quiz
loopVars == <<starsRef, pendingFrames>>
quizVars == <<gameState, colors, colorsQueue>>
\* The state of the shooter
shooterVars == <<canvas, gameActive, isGameOver, score, lives, level, queue, phase,
                 playerRef, enemiesRef, bulletsRef, keysRef, lastShootTimeRef, clock,
                 loopVars>>

\* ------------------------------------------------------------------ helpers

Max(a, b) == IF a > b THEN a ELSE b
Min(a, b) == IF a < b THEN a ELSE b

\* Math.hypot(ax - bx, ay - by) < r, r in pixels
Near(ax, ay, bx, by, r) ==
    (ax - bx) * (ax - bx) + (ay - by) * (ay - by) < (r * SubPx) * (r * SubPx)

\* Array.prototype.splice(i, 1) at the 1-based index i: nothing when i is
\* past the end
Splice(s, i) ==
    IF i >= 1 /\ i <= Len(s)
    THEN SubSeq(s, 1, i - 1) \o SubSeq(s, i + 1, Len(s))
    ELSE s

NoUpdates == [start |-> FALSE, score |-> 0, lives |-> 0, level |-> 0]

\* ------------------------------------------------------------------- Player

\* new Player(canvasWidth, canvasHeight)
NewPlayer(cw, ch) ==
    [x |-> cw \div 2, y |-> ch - PlayerStartOffset * SubPx, invincibility |-> 0]

\* Mutant: the countdown steps by two
Countdown_ByTwo(inv) == IF inv > 0 THEN inv - 2 ELSE inv
\* if (this.invincibility > 0) this.invincibility-- (line 49)
Countdown(inv) == IF inv > 0 THEN inv - 1 ELSE inv

\* Mutant: each key held moves the player, two keys of a direction twice
PlayerUpdate_EachKey(p, keys, cw, ch) ==
    LET n(k)  == IF k \in keys THEN PlayerSpeed * SubPx ELSE 0
        x1 == p.x - n("a") - n("ArrowLeft") + n("d") + n("ArrowRight")
        y1 == p.y - n("w") - n("ArrowUp") + n("s") + n("ArrowDown")
    IN  [x |-> Max(Margin * SubPx, Min(cw - Margin * SubPx, x1)),
         y |-> Max(Margin * SubPx, Min(ch - Margin * SubPx, y1)),
         invincibility |-> Countdown(p.invincibility)]

\* Mutant: the position is clamped from below only
PlayerUpdate_NoUpperClamp(p, keys, cw, ch) ==
    LET up    == IF "w" \in keys \/ "ArrowUp" \in keys THEN PlayerSpeed * SubPx ELSE 0
        down  == IF "s" \in keys \/ "ArrowDown" \in keys THEN PlayerSpeed * SubPx ELSE 0
        left  == IF "a" \in keys \/ "ArrowLeft" \in keys THEN PlayerSpeed * SubPx ELSE 0
        right == IF "d" \in keys \/ "ArrowRight" \in keys THEN PlayerSpeed * SubPx ELSE 0
    IN  [x |-> Max(Margin * SubPx, p.x - left + right),
         y |-> Max(Margin * SubPx, p.y - up + down),
         invincibility |-> Countdown(p.invincibility)]

\* Player.update(keys, canvasWidth, canvasHeight)
PlayerUpdate(p, keys, cw, ch) ==
    LET up    == IF "w" \in keys \/ "ArrowUp" \in keys THEN PlayerSpeed * SubPx ELSE 0
        down  == IF "s" \in keys \/ "ArrowDown" \in keys THEN PlayerSpeed * SubPx ELSE 0
        left  == IF "a" \in keys \/ "ArrowLeft" \in keys THEN PlayerSpeed * SubPx ELSE 0
        right == IF "d" \in keys \/ "ArrowRight" \in keys THEN PlayerSpeed * SubPx ELSE 0
        x1 == p.x - left + right
        y1 == p.y - up + down
    IN  [x |-> Max(Margin * SubPx, Min(cw - Margin * SubPx, x1)),
         y |-> Max(Margin * SubPx, Min(ch - Margin * SubPx, y1)),
         invincibility |-> Countdown(p.invincibility)]

\* -------------------------------------------------------------------- Enemy

\* new Enemy(canvasWidth, level): u (percent) stands for the Math.random()
\* of line 77, and jit (sub-pixels) for what the Math.random() * 2 of line 79
\* adds to 3 in double arithmetic, 3 + Math.random() * 2 - 3.  The product is
\* below 2, but the sum is rounded: for a Math.random() of 1 - 2^-53
\* the product is 2 - 2^-52 and 3 + (2 - 2^-52) is the double 5, the doubles
\* from 4 to 8 being 2^-50 apart.  So jit ranges over 0 .. 2 pixels, the end
\* included.
\* u = Percent stands for the draws next to 1 whose x rounds to
\* canvasWidth - 30: for a canvas 180 wide, (1 - 2^-53) * 120 + 30 is 150 in
\* doubles.
\* Mutant: the margin is not added
NewEnemy_NoMargin(cw, lvl, u, jit) ==
    [x |-> (u * (cw - 2 * Margin * SubPx)) \div Percent,
     y |-> 0 - EnemySpawnOffset * SubPx,
     speed |-> EnemyBaseSpeed * SubPx + jit + lvl]

\* Mutant: the level adds half a pixel for every two levels
NewEnemy_EveryOtherLevel(cw, lvl, u, jit) ==
    [x |-> (u * (cw - 2 * Margin * SubPx)) \div Percent + Margin * SubPx,
     y |-> 0 - EnemySpawnOffset * SubPx,
     speed |-> EnemyBaseSpeed * SubPx + jit + lvl \div 2]

NewEnemy(cw, lvl, u, jit) ==
    [x |-> (u * (cw - 2 * Margin * SubPx)) \div Percent + Margin * SubPx,
     y |-> 0 - EnemySpawnOffset * SubPx,
     speed |-> EnemyBaseSpeed * SubPx + jit + lvl]

\* ------------------------------------------------------------- bullets pass

\* Mutant: a hit removes the enemy and the projectile without setScore
RECURSIVE HitScan_NoScore(_, _, _, _, _, _, _)
HitScan_NoScore(b, i, bs, es, hits, ei, n) ==
    IF ei > n THEN [bullets |-> bs, enemies |-> es, hits |-> hits]
    ELSE IF ei > Len(es) THEN HitScan_NoScore(b, i, bs, es, hits, ei + 1, n)
    ELSE IF Near(b.x, b.y, es[ei].x, es[ei].y, HitRadius)
         THEN HitScan_NoScore(b, i, Splice(bs, i), Splice(es, ei), hits, ei + 1, n)
         ELSE HitScan_NoScore(b, i, bs, es, hits, ei + 1, n)

\* The inner enemies.forEach of one bullet b at index i (lines 211-217):
\* ei runs over the indices the array had when the forEach began (n), and an
\* index that the splices have emptied is skipped.
RECURSIVE HitScan(_, _, _, _, _, _, _)
HitScan(b, i, bs, es, hits, ei, n) ==
    IF ei > n THEN [bullets |-> bs, enemies |-> es, hits |-> hits]
    ELSE IF ei > Len(es) THEN HitScan(b, i, bs, es, hits, ei + 1, n)
    ELSE IF Near(b.x, b.y, es[ei].x, es[ei].y, HitRadius)
         THEN HitScan(b, i, Splice(bs, i), Splice(es, ei), hits + 1, ei + 1, n)
         ELSE HitScan(b, i, bs, es, hits, ei + 1, n)

\* The callback of bulletsRef.current.forEach for the bullet at index i
\* (lines 202-217): the bullet moves up, and is removed if it has left by
\* the top, tested against the enemies otherwise
BulletStep(bs, es, hits, i) ==
    LET b   == [bs[i] EXCEPT !.y = @ - BulletSpeed * SubPx]
        bs1 == [bs EXCEPT ![i] = b]
    IN  IF b.y < 0
        THEN [bullets |-> Splice(bs1, i), enemies |-> es, hits |-> hits]
        ELSE HitScan(b, i, bs1, es, hits, 1, Len(es))

\* bulletsRef.current.forEach (lines 201-218) from index i on; n is the
\* length the array had when the forEach began, and an index that the
\* splices have emptied is not visited
RECURSIVE BulletsFrom(_, _, _, _, _)
BulletsFrom(bs, es, hits, i, n) ==
    IF i > n THEN [bullets |-> bs, enemies |-> es, hits |-> hits]
    ELSE IF i > Len(bs) THEN BulletsFrom(bs, es, hits, i + 1, n)
    ELSE LET r == BulletStep(bs, es, hits, i)
         IN  BulletsFrom(r.bullets, r.enemies, r.hits, i + 1, n)

BulletsPass(bs, es) == BulletsFrom(bs, es, 0, 1, Len(bs))

\* ------------------------------------------------------------- enemies pass

\* enemiesRef.current.forEach (lines 226-249) from index i on
RECURSIVE EnemiesFrom(_, _, _, _, _, _)
EnemiesFrom(es, p, ch, hits, i, n) ==
    IF i > n THEN [enemies |-> es, player |-> p, hits |-> hits]
    ELSE IF i > Len(es) THEN EnemiesFrom(es, p, ch, hits, i + 1, n)
    ELSE LET e   == [es[i] EXCEPT !.y = @ + es[i].speed]
             es1 == [es EXCEPT ![i] = e]
         IN  IF e.y > ch
             THEN EnemiesFrom(Splice(es1, i), p, ch, hits, i + 1, n)
             ELSE IF p.invincibility <= 0 /\ Near(e.x, e.y, p.x, p.y, PlayerHitRadius)
                  THEN EnemiesFrom(Splice(es1, i),
                                   [p EXCEPT !.invincibility = InvincibilityFrames],
                                   ch, hits + 1, i + 1, n)
                  ELSE EnemiesFrom(es1, p, ch, hits, i + 1, n)

EnemiesPass(es, p, ch) == EnemiesFrom(es, p, ch, 0, 1, Len(es))

\* -------------------------------------------------------------------- stars

\* The star pushed at line 167: star.x (percent) stands for the Math.random()
\* of line 168, star.s (sub-pixels) for the Math.random() * 2 + 1 of line 170
NewStar(cw, star) ==
    [x |-> (star.x * cw) \div Percent, y |-> 0 - StarSpawnOffset * SubPx, s |-> star.s]

\* starsRef.current.forEach (lines 175-179) from index i on, n being the
\* length the array had when the forEach began.  The iterations up to the
\* next star that leaves by the bottom are taken in one go: each moves its
\* star; that star is spliced and the forEach goes on at the index after it,
\* past the star that has slid into its place.
RECURSIVE StarsFrom(_, _, _, _)
StarsFrom(ss, ch, i, n) ==
    IF i > n \/ i > Len(ss) THEN ss
    ELSE LET leaving == {k \in i .. Len(ss) : ss[k].y + ss[k].s > ch}
             d       == IF leaving = {} THEN Len(ss) + 1
                        ELSE CHOOSE k \in leaving : \A m \in leaving : k <= m
             ss1     == [k \in 1 .. Len(ss) |->
                           IF k >= i /\ k <= d
                           THEN [ss[k] EXCEPT !.y = @ + ss[k].s]
                           ELSE ss[k]]
         IN  IF leaving = {} THEN ss1
             ELSE StarsFrom(Splice(ss1, d), ch, d + 1, n)

\* Mutant: a star is pushed while there are no more than StarCap
Stars_CapIncluded(ss, cw, ch, star) ==
    LET pushed == IF Len(ss) <= StarCap THEN Append(ss, NewStar(cw, star)) ELSE ss
    IN  StarsFrom(pushed, ch, 1, Len(pushed))

\* The stars part of loop (lines 165-179) on the stars ss
Stars(ss, cw, ch, star) ==
    LET pushed == IF Len(ss) < StarCap THEN Append(ss, NewStar(cw, star)) ELSE ss
    IN  StarsFrom(pushed, ch, 1, Len(pushed))

\* --------------------------------------------------------------------- loop

\* Mutant: a shot as soon as ShootInterval ms have passed
CanShoot_AtInterval(now) ==
    /\ (" " \in keysRef \/ "isTouch" \in keysRef)
    /\ now - lastShootTimeRef >= ShootInterval
\* The condition of the shooting logic (lines 192-194), Date.now() = now
CanShoot(now) ==
    /\ (" " \in keysRef \/ "isTouch" \in keysRef)
    /\ now - lastShootTimeRef > ShootInterval

\* The simulation part of loop (lines 181-253) run by a closure that
\* captured active, lvl and sc, with Date.now() = now and the Math.random()
\* draws roll (percent, line 221), u and jit.
Loop(active, lvl, sc, now, roll, u, jit) ==
    IF active /\ playerRef # << >>
    THEN LET p1    == PlayerUpdate(playerRef[1], keysRef, canvas.width, canvas.height)
             shoot == CanShoot(now)
             b1    == IF shoot
                      THEN Append(bulletsRef,
                                  [x |-> p1.x, y |-> p1.y - BulletOffset * SubPx])
                      ELSE bulletsRef
             bp    == BulletsPass(b1, enemiesRef)
             e1    == IF roll < SpawnBasePct + lvl
                      THEN Append(bp.enemies, NewEnemy(canvas.width, lvl, u, jit))
                      ELSE bp.enemies
             ep    == EnemiesPass(e1, p1, canvas.height)
             newLevel == sc \div LevelThreshold + 1
         IN  [player  |-> <<ep.player>>,
              enemies |-> ep.enemies,
              bullets |-> bp.bullets,
              last    |-> IF shoot THEN now ELSE lastShootTimeRef,
              sim     |-> TRUE,
              updates |-> [start |-> FALSE, score |-> bp.hits, lives |-> ep.hits,
                           level |-> newLevel]]
    ELSE [player  |-> playerRef,
          enemies |-> enemiesRef,
          bullets |-> bulletsRef,
          last    |-> lastShootTimeRef,
          sim     |-> FALSE,
          updates |-> NoUpdates]

\* What the setters of one loop leave queued: setLevel with the level React
\* already holds, and nothing else queued, schedules no render.
Queued(u, lvl) ==
    IF u.score = 0 /\ u.lives = 0 /\ ~u.start /\ u.level = lvl
    THEN NoUpdates
    ELSE u

\* -------------------------------------------------------------------- React

\* Mutant: gameOver only once lives is below zero
RECURSIVE ApplyLives_Late(_, _)
ApplyLives_Late(prev, n) ==
    IF n = 0 THEN [lives |-> prev, over |-> FALSE]
    ELSE LET next == prev - 1
             rest == ApplyLives_Late(next, n - 1)
         IN  [lives |-> rest.lives, over |-> (next < 0) \/ rest.over]

\* The queued `prev => prev - 1` updaters of setLives (lines 239-245) applied
\* in turn to prev; over: one of them called gameOver()
RECURSIVE ApplyLives(_, _)
ApplyLives(prev, n) ==
    IF n = 0 THEN [lives |-> prev, over |-> FALSE]
    ELSE LET next == prev - 1
             rest == ApplyLives(next, n - 1)
         IN  [lives |-> rest.lives, over |-> (next <= 0) \/ rest.over]

\* Mutant: gameOver forgets setGameActive(false)
Commit_StaysActive(q) ==
    LET l == ApplyLives(IF q.start THEN InitialLives ELSE lives, q.lives)
    IN  [score      |-> (IF q.start THEN 0 ELSE score) + Reward * q.score,
         lives      |-> l.lives,
         level      |-> IF q.level # 0 THEN q.level ELSE IF q.start THEN 1 ELSE level,
         gameActive |-> IF q.start THEN TRUE ELSE gameActive,
         isGameOver |-> IF l.over THEN TRUE ELSE IF q.start THEN FALSE ELSE isGameOver]

\* Mutant: every lost life ends the game
Commit_OverOnHit(q) ==
    LET l == ApplyLives(IF q.start THEN InitialLives ELSE lives, q.lives)
    IN  [score      |-> (IF q.start THEN 0 ELSE score) + Reward * q.score,
         lives      |-> l.lives,
         level      |-> IF q.level # 0 THEN q.level ELSE IF q.start THEN 1 ELSE level,
         gameActive |-> IF q.lives > 0 THEN FALSE ELSE IF q.start THEN TRUE ELSE gameActive,
         isGameOver |-> IF q.lives > 0 THEN TRUE ELSE IF q.start THEN FALSE ELSE isGameOver]

\* Mutant: startGame without setIsGameOver(false)
Commit_KeepsGameOver(q) ==
    LET l == ApplyLives(IF q.start THEN InitialLives ELSE lives, q.lives)
    IN  [score      |-> (IF q.start THEN 0 ELSE score) + Reward * q.score,
         lives      |-> l.lives,
         level      |-> IF q.level # 0 THEN q.level ELSE IF q.start THEN 1 ELSE level,
         gameActive |-> IF l.over THEN FALSE ELSE IF q.start THEN TRUE ELSE gameActive,
         isGameOver |-> IF l.over THEN TRUE ELSE isGameOver]

\* The state React commits from the queued updates: startGame's five sets
\* (lines 134-138), the `prev => prev + 100` updaters of setScore (line 213),
\* the setLives updaters with their gameOver (lines 149-152), setLevel
\* (line 252)
Commit(q) ==
    LET l == ApplyLives(IF q.start THEN InitialLives ELSE lives, q.lives)
    IN  [score      |-> (IF q.start THEN 0 ELSE score) + Reward * q.score,
         lives      |-> l.lives,
         level      |-> IF q.level # 0 THEN q.level ELSE IF q.start THEN 1 ELSE level,
         gameActive |-> IF l.over THEN FALSE ELSE IF q.start THEN TRUE ELSE gameActive,
         isGameOver |-> IF l.over THEN TRUE ELSE IF q.start THEN FALSE ELSE isGameOver]

\* ------------------------------------------------------------------ actions

\* The draw of line 221 spawns only while fewer than max enemies are alive
\* (the bound of the model).
SpawnBound(roll, lvl, max) ==
    roll < SpawnBasePct + lvl => Len(enemiesRef) < max

\* What one run of loop writes, by a closure holding the committed state
RunLoop(now, roll, u, jit, star) ==
    LET r == Loop(gameActive, level, score, now, roll, u, jit)
        q == Queued(r.updates, level)
    IN  /\ starsRef' = Stars(starsRef, canvas.width, canvas.height, star)
        /\ playerRef' = r.player
        /\ enemiesRef' = r.enemies
        /\ bulletsRef' = r.bullets
        /\ lastShootTimeRef' = r.last
        /\ queue' = q
        /\ phase' = IF q = NoUpdates THEN "idle" ELSE "render"
        /\ clock' = now
        /\ UNCHANGED <<canvas, gameActive, isGameOver, score, lives, level, keysRef>>
        /\ UNCHANGED quizVars

\* The animation-frame callback (lines 162-256, requested at line 255), dt
\* milliseconds after the last clock reading: it takes one request and
\* leaves its own
Frame(dt, roll, u, jit, max, maxClock, star) ==
    /\ phase = "idle"
    /\ pendingFrames > 0
    /\ clock + dt <= maxClock
    /\ SpawnBound(roll, level, max)
    /\ RunLoop(clock + dt, roll, u, jit, star)
    /\ pendingFrames' = (pendingFrames - 1) + 1

\* React renders: the queued updates become the committed state; a change of
\* gameActive, level or score (the effect's dependencies, line 260) leaves
\* the game-loop effect to re-run
Render ==
    /\ phase = "render"
    /\ LET c == Commit(queue)
       IN  /\ score' = c.score
           /\ lives' = c.lives
           /\ level' = c.level
           /\ gameActive' = c.gameActive
           /\ isGameOver' = c.isGameOver
           /\ phase' = IF <<c.gameActive, c.level, c.score>> # <<gameActive, level, score>>
                       THEN "effect" ELSE "idle"
    /\ queue' = NoUpdates
    /\ UNCHANGED <<loopVars, quizVars>>
    /\ UNCHANGED <<canvas, playerRef, enemiesRef, bulletsRef, keysRef,
                   lastShootTimeRef, clock>>

\* Mutant: the effect has no cleanup, the pending frame stays requested
Effect_NoCleanup(dt, roll, u, jit, max, maxClock, star) ==
    /\ phase = "effect"
    /\ clock + dt <= maxClock
    /\ SpawnBound(roll, level, max)
    /\ RunLoop(clock + dt, roll, u, jit, star)
    /\ pendingFrames' = pendingFrames + 1

\* The game-loop effect re-runs (lines 155-260): the cleanup cancels the
\* pending frame (line 259) and the new closure's loop() runs at once
\* (line 258)
Effect(dt, roll, u, jit, max, maxClock, star) ==
    /\ phase = "effect"
    /\ clock + dt <= maxClock
    /\ SpawnBound(roll, level, max)
    /\ RunLoop(clock + dt, roll, u, jit, star)
    /\ pendingFrames' = Max(pendingFrames - 1, 0) + 1

\* Mutant: startGame keeps the projectiles of the last game
StartGame_KeepsBullets ==
    /\ phase = "idle"
    /\ ~gameActive
    /\ queue' = [start |-> TRUE, score |-> 0, lives |-> 0, level |-> 0]
    /\ phase' = "render"
    /\ playerRef' = <<NewPlayer(canvas.width, canvas.height)>>
    /\ enemiesRef' = << >>
    /\ lastShootTimeRef' = 0
    /\ UNCHANGED <<loopVars, quizVars>>
    /\ UNCHANGED <<canvas, gameActive, isGameOver, score, lives, level, keysRef, clock,
                   bulletsRef>>

\* startGame (lines 133-147), the onClick of the two buttons, rendered only
\* while gameActive is false (lines 323, 339)
StartGame ==
    /\ phase = "idle"
    /\ ~gameActive
    /\ queue' = [start |-> TRUE, score |-> 0, lives |-> 0, level |-> 0]
    /\ phase' = "render"
    /\ playerRef' = <<NewPlayer(canvas.width, canvas.height)>>
    /\ enemiesRef' = << >>
    /\ bulletsRef' = << >>
    /\ lastShootTimeRef' = 0
    /\ UNCHANGED <<loopVars, quizVars>>
    /\ UNCHANGED <<canvas, gameActive, isGameOver, score, lives, level, keysRef, clock>>

\* An input event is handled between React's work: never between the click
\* on a start button and the render and effect it causes (synchronous), and
\* the effect is flushed right after its render
Listening == phase = "idle" \/ (phase = "render" /\ ~queue.start)

\* handleKeyDown / handleKeyUp (lines 264-265)
KeyDown(k) ==
    /\ Listening
    /\ keysRef' = keysRef \cup {k}
    /\ UNCHANGED <<loopVars, quizVars>>
    /\ UNCHANGED <<canvas, gameActive, isGameOver, score, lives, level, queue, phase,
                   playerRef, enemiesRef, bulletsRef, lastShootTimeRef, clock>>

KeyUp(k) ==
    /\ Listening
    /\ keysRef' = keysRef \ {k}
    /\ UNCHANGED <<loopVars, quizVars>>
    /\ UNCHANGED <<canvas, gameActive, isGameOver, score, lives, level, queue, phase,
                   playerRef, enemiesRef, bulletsRef, lastShootTimeRef, clock>>

\* The player after a touch at (clientX, clientY), lines 279-282 and 287-290
TouchPlayer(tx, ty) ==
    IF playerRef # << >>
    THEN <<[playerRef[1] EXCEPT !.x = tx, !.y = ty - 60 * SubPx]>>
    ELSE playerRef

\* handleTouchStart (lines 276-283)
TouchStart(tx, ty) ==
    /\ Listening
    /\ keysRef' = keysRef \cup {"isTouch"}
    /\ playerRef' = TouchPlayer(tx, ty)
    /\ UNCHANGED <<loopVars, quizVars>>
    /\ UNCHANGED <<canvas, gameActive, isGameOver, score, lives, level, queue, phase,
                   enemiesRef, bulletsRef, lastShootTimeRef, clock>>

\* handleTouchMove (lines 285-291)
TouchMove(tx, ty) ==
    /\ Listening
    /\ playerRef' = TouchPlayer(tx, ty)
    /\ UNCHANGED <<loopVars, quizVars>>
    /\ UNCHANGED <<canvas, gameActive, isGameOver, score, lives, level, queue, phase,
                   enemiesRef, bulletsRef, keysRef, lastShootTimeRef, clock>>

\* handleTouchEnd (lines 293-295)
TouchEnd ==
    /\ Listening
    /\ keysRef' = keysRef \ {"isTouch"}
    /\ UNCHANGED <<loopVars, quizVars>>
    /\ UNCHANGED <<canvas, gameActive, isGameOver, score, lives, level, queue, phase,
                   playerRef, enemiesRef, bulletsRef, lastShootTimeRef, clock>>

\* handleResize (lines 120-125): the canvas takes the window's size
Resize(w, h) ==
    /\ Listening
    /\ canvas' = [width |-> w, height |-> h]
    /\ UNCHANGED <<loopVars, quizVars>>
    /\ UNCHANGED <<gameActive, isGameOver, score, lives, level, queue, phase,
                   playerRef, enemiesRef, bulletsRef, keysRef, lastShootTimeRef, clock>>

\* --------------------------------------------------------------- colour quiz

\* The colour quiz is the second App of src/src/App.tsx (lines 361-707).  Of
\* its state the model keeps the score, isPlaying, isGameOver and gridSize of
\* gameState and the targetIndex of colors; the timer (startTime,
\* elapsedTime) and the colours themselves are left out.  A click is a
\* discrete event: React renders the handler's setGameState and runs the
\* effects of that render before the click's task ends, so an action of a
\* click is the handler, that render and the round-initialization effect
\* (lines 504-508) together.  The setColors that the effect calls through
\* startNewRound is not rendered in that task: it waits in colorsQueue, the
\* page showing the new gameState with the colours of the round before,
\* until RenderColors commits it.

\* startNewRound (lines 434-443) for a grid of size g: r (percent) stands for
\* the Math.random() of line 440
NewRound(g, r) == <<[targetIndex |-> (r * (g * g)) \div Percent]>>

\* The grid size handleBlockClick computes from the new score (line 473)
NewGridSize(newScore) ==
    IF newScore > 15 THEN 6 ELSE (IF newScore > 30 THEN 7 ELSE INITIAL_GRID_SIZE)

\* startGame of the quiz (lines 445-456), the onClick of the two buttons
\* (lines 550, 610), rendered on the start screen and on the game-over
\* overlay; isPlaying has changed, so the round effect of the render calls
\* startNewRound, whose setColors replaces the one that may be waiting
QuizStartGame(r) ==
    /\ ~gameState.isPlaying
    /\ gameState' = [score |-> 0, isPlaying |-> TRUE, isGameOver |-> FALSE,
                     gridSize |-> INITIAL_GRID_SIZE]
    /\ colors' = colors
    /\ colorsQueue' = NewRound(INITIAL_GRID_SIZE, r)
    /\ UNCHANGED shooterVars

\* Mutant: stopGame clears the score
StopGame_ClearsScore(prev) ==
    [prev EXCEPT !.isPlaying = FALSE, !.isGameOver = TRUE, !.score = 0]

\* stopGame (lines 458-461) applied to the state prev
StopGame(prev) == [prev EXCEPT !.isPlaying = FALSE, !.isGameOver = TRUE]

\* handleBlockClick(index) (lines 463-484), the onClick of the blocks
\* (line 576), rendered once colors is set and the start screen is gone;
\* the click is judged by the colours as rendered, those of the round
\* before while a setColors waits.  The score of a correct click has
\* changed, so the round effect of the render calls startNewRound; a wrong
\* click leaves isPlaying false and the effect does nothing.  A correct
\* click is followed to the score max (the bound of the model)
HandleBlockClick(index, r, max) ==
    /\ colors # << >>
    /\ gameState.isPlaying \/ gameState.isGameOver
    /\ index < gameState.gridSize * gameState.gridSize
    /\ IF ~gameState.isPlaying
       THEN UNCHANGED quizVars
       ELSE IF index = colors[1].targetIndex
            THEN /\ gameState.score < max
                 /\ gameState' = [gameState EXCEPT
                                    !.score = @ + 1,
                                    !.gridSize = NewGridSize(gameState.score + 1)]
                 /\ colors' = colors
                 /\ colorsQueue' = NewRound(NewGridSize(gameState.score + 1), r)
            ELSE /\ gameState' = StopGame(gameState)
                 /\ colors' = colors
                 /\ colorsQueue' = colorsQueue
    /\ UNCHANGED shooterVars

\* React's render of the setColors of startNewRound (line 442), in a task
\* after the click's: the colours of the new round are committed; no
\* dependency of the effects has changed
RenderColors ==
    /\ colorsQueue # << >>
    /\ colors' = colorsQueue
    /\ colorsQueue' = << >>
    /\ gameState' = gameState
    /\ UNCHANGED shooterVars

\* ----------------------------------------------------------- specifications

\* The windows the page is opened in
Px(n) == n * SubPx
Window0 == [width |-> Px(180), height |-> Px(180)]
WindowLow == [width |-> Px(180), height |-> Px(60)]

\* The star of the settled sky: leftmost column, 2.5 pixels a frame
FastStar == [x |-> 0, s |-> 2 * SubPx + 1]

\* The settled sky of a window win: the start screen has been showing long
\* enough for a frame of FastStar to leave the stars as they are.  The oldest star is removed in every frame and the
\* second, skipped by the forEach, takes its place; the others follow one
\* step apart, down to the star just pushed.
SettledTop(win) ==
    LET y0 == 0 - StarSpawnOffset * SubPx
    IN  y0 + FastStar.s * ((win.height - y0) \div FastStar.s)
Settled(win) ==
    LET y0 == 0 - StarSpawnOffset * SubPx
        n  == (SettledTop(win) - y0) \div FastStar.s + 1
    IN  [k \in 1 .. n |->
           [x |-> 0,
            y |-> IF k = 1 THEN SettledTop(win)
                  ELSE SettledTop(win) - (k - 2) * FastStar.s,
            s |-> FastStar.s]]

\* The colour quiz after mount (lines 420-431)
QuizMounted ==
    [score |-> 0, isPlaying |-> FALSE, isGameOver |-> FALSE,
     gridSize |-> INITIAL_GRID_SIZE]

\* After mount in a window win: useState's initial values (lines 96-100),
\* the refs' initial values (lines 103-108), the canvas sized by the mount
\* effect (line 129), one frame requested by the first run of loop
\* (line 258), which has left the stars sky
Mounted(win, sky) ==
    /\ canvas = win
    /\ gameActive = FALSE
    /\ isGameOver = FALSE
    /\ score = 0
    /\ lives = InitialLives
    /\ level = 1
    /\ queue = NoUpdates
    /\ phase = "idle"
    /\ playerRef = << >>
    /\ enemiesRef = << >>
    /\ bulletsRef = << >>
    /\ keysRef = {}
    /\ lastShootTimeRef = 0
    /\ clock = StartClock
    /\ starsRef = sky
    /\ pendingFrames = 1
    /\ gameState = QuizMounted
    /\ colors = << >>
    /\ colorsQueue = << >>

\* The page has been showing its start screen for long: the stars are those
\* of the settled sky
InitWith(win) == Mounted(win, Settled(win))

\* Math.random() < 0.02 + level * 0.01 (line 221), in percent: drawn and not
Rolls == {0, 99}
\* The enemy's column: the middle of the canvas, where the player starts
Middle == Percent \div 2
\* The enemy's jitter: 1.5 pixels
Fast == 2 * SubPx - 1

\* Spec, the game: enemies come down the player's column one at a time, the
\* player fires or not, a frame comes at once or ShootInterval + 1 ms later
Init == InitWith(Window0)
Dts == {0, ShootInterval + 1}
MaxClock == StartClock + MaxClockSteps * (ShootInterval + 1)
Next ==
    \/ \E dt \in Dts, roll \in Rolls : Frame(dt, roll, Middle, Fast, MaxEnemies, MaxClock, FastStar)
    \/ Render
    \/ \E roll \in Rolls : Effect(0, roll, Middle, Fast, MaxEnemies, MaxClock, FastStar)
    \/ StartGame
    \/ KeyDown(" ")
    \/ KeyUp(" ")

Spec == Init /\ [][Next]_vars

\* SpecLives, the game on a canvas 60 pixels high, where the player stays at
\* y = 30 and its projectiles leave at once: up to LivesEnemies enemies come
\* down the player's column
InitLives == InitWith(WindowLow)
NextLives ==
    \/ \E roll \in Rolls : Frame(0, roll, Middle, Fast, LivesEnemies, StartClock, FastStar)
    \/ Render
    \/ \E roll \in Rolls : Effect(0, roll, Middle, Fast, LivesEnemies, StartClock, FastStar)
    \/ StartGame

SpecLives == InitLives /\ [][NextLives]_vars

\* SpecHits, slow frames: every frame comes ShootInterval + 1 ms after the
\* last, so that a held fire key fires in each; up to HitsEnemies enemies come
\* down the player's column
HitsClock == StartClock + HitsFrames * (ShootInterval + 1)
NextHits ==
    \/ \E roll \in Rolls :
          Frame(ShootInterval + 1, roll, Middle, Fast, HitsEnemies, HitsClock, FastStar)
    \/ Render
    \/ \E roll \in Rolls : Effect(0, roll, Middle, Fast, HitsEnemies, HitsClock, FastStar)
    \/ StartGame
    \/ KeyDown(" ")
    \/ KeyUp(" ")

SpecHits == Init /\ [][NextHits]_vars

\* SpecLevel, the long game: slow frames with the fire key going down and
\* staying down, and an enemy spawned in every run of loop that finds fewer
\* than LevelEnemies alive (Crowded: the draw of line 221 that does so)
LevelClock == StartClock + LevelFrames * (ShootInterval + 1)
Crowded(roll) == roll = 0 <=> Len(enemiesRef) < LevelEnemies
NextLevel ==
    \/ \E roll \in Rolls :
          Crowded(roll) /\ Frame(ShootInterval + 1, roll, Middle, Fast, LevelEnemies, LevelClock, FastStar)
    \/ Render
    \/ \E roll \in Rolls :
          Crowded(roll) /\ Effect(0, roll, Middle, Fast, LevelEnemies, LevelClock, FastStar)
    \/ StartGame
    \/ KeyDown(" ")

SpecLevel == Init /\ [][NextLevel]_vars

\* SpecMove, steering: no enemy, no shot; the page is opened in a window as
\* high as Window0 or lower than two margins; the direction keys go down and
\* up, a finger moves over the screen, the window is made as wide as Window0
\* or narrower than two margins
WindowTiny == [width |-> Px(50), height |-> Px(40)]
Windows ==
    {[width |-> w.width, height |-> h.height] : w \in {Window0, WindowTiny},
                                                 h \in {Window0, WindowTiny}}
MoveKeys == {"a", "ArrowRight", "w", "ArrowDown"}
Touches == {<<Px(0), Px(0)>>, <<Px(170), Px(230)>>}
InitMove == \E win \in Windows : InitWith(win)
NextMove ==
    \/ Frame(0, 99, Middle, Fast, MaxEnemies, StartClock, FastStar)
    \/ Render
    \/ Effect(0, 99, Middle, Fast, MaxEnemies, StartClock, FastStar)
    \/ StartGame
    \/ \E k \in MoveKeys : KeyDown(k)
    \/ \E k \in MoveKeys : KeyUp(k)
    \/ \E t \in Touches : TouchMove(t[1], t[2])
    \/ \E win \in {w \in Windows : w.height = canvas.height} :
          Resize(win.width, win.height)

SpecMove == InitMove /\ [][NextMove]_vars

\* SpecFire, firing: no enemy; the fire key and a finger on the player's
\* starting point go down and up, a frame comes at once, ShootInterval ms or
\* ShootInterval + 1 ms after the last clock reading
FireDts == {0, ShootInterval, ShootInterval + 1}
FireClock == StartClock + FireSteps * (ShootInterval + 1)
NextFire ==
    \/ \E dt \in FireDts : Frame(dt, 99, Middle, Fast, MaxEnemies, FireClock, FastStar)
    \/ Render
    \/ Effect(0, 99, Middle, Fast, MaxEnemies, FireClock, FastStar)
    \/ StartGame
    \/ KeyDown(" ")
    \/ KeyUp(" ")
    \/ TouchStart(Px(90), Px(120))
    \/ TouchEnd

SpecFire == Init /\ [][NextFire]_vars

\* SpecSpawn, spawning: a game on the low canvas that has reached one of the
\* levels 1 .. MaxLevel with the score of that level, the player on its
\* column and nothing else alive; enemies of every jitter come down the
\* leftmost column, where they pass the player by
Levels == 1 .. MaxLevel
Jits == 0 .. 2 * SubPx
Leftmost == 0
InitSpawn ==
    /\ canvas = WindowLow
    /\ gameActive = TRUE
    /\ isGameOver = FALSE
    /\ level \in Levels
    /\ score = (level - 1) * LevelThreshold
    /\ lives = InitialLives
    /\ queue = NoUpdates
    /\ phase = "idle"
    /\ playerRef = <<PlayerUpdate(NewPlayer(WindowLow.width, WindowLow.height), {},
                                  WindowLow.width, WindowLow.height)>>
    /\ enemiesRef = << >>
    /\ bulletsRef = << >>
    /\ keysRef = {}
    /\ lastShootTimeRef = StartClock
    /\ clock = StartClock
    /\ starsRef = Settled(WindowLow)
    /\ pendingFrames = 1
    /\ gameState = QuizMounted
    /\ colors = << >>
    /\ colorsQueue = << >>
NextSpawn ==
    \E roll \in Rolls, jit \in Jits :
        Frame(0, roll, Leftmost, jit, SpawnEnemies, StartClock, FastStar)

SpecSpawn == InitSpawn /\ [][NextSpawn]_vars

\* SpecPlace, where enemies appear: the page is opened in a window 180 wide
\* or 50 wide, and the enemies come down the first column (draw 0) and the
\* last (the draws next to 1)
Rightmost == Percent
Columns == {Leftmost, Rightmost}
PlaceWindows == {WindowLow, WindowTiny}
InitPlace == \E win \in PlaceWindows : InitWith(win)
NextPlace ==
    \/ \E roll \in Rolls, u \in Columns :
          Frame(0, roll, u, Fast, PlaceEnemies, StartClock, FastStar)
    \/ Render
    \/ \E roll \in Rolls, u \in Columns :
          Effect(0, roll, u, Fast, PlaceEnemies, StartClock, FastStar)
    \/ StartGame

SpecPlace == InitPlace /\ [][NextPlace]_vars

\* SpecStars, the sky from the mount on: every star is pushed in the leftmost
\* column with the least speed, 1 pixel a frame, so that more than StarCap
\* frames pass before the first leaves a canvas 180 high; the game is
\* started or not, with no enemy and no key
SlowStar == [x |-> 0, s |-> StarBaseSpeed * SubPx]
InitStars == Mounted(Window0, Stars(<< >>, Window0.width, Window0.height, SlowStar))
NextStars ==
    \/ Frame(0, 99, Middle, Fast, MaxEnemies, StartClock, SlowStar)
    \/ Render
    \/ Effect(0, 99, Middle, Fast, MaxEnemies, StartClock, SlowStar)
    \/ StartGame

SpecStars == InitStars /\ [][NextStars]_vars

\* SpecKeys, the eight direction keys: no enemy, no shot, on a canvas that
\* leaves the player five columns and three rows
WindowKeys == [width |-> Px(92), height |-> Px(76)]
DirectionKeys == {"w", "ArrowUp", "s", "ArrowDown", "a", "ArrowLeft", "d", "ArrowRight"}
InitKeys == InitWith(WindowKeys)
NextKeys ==
    \/ Frame(0, 99, Middle, Fast, MaxEnemies, StartClock, FastStar)
    \/ Render
    \/ Effect(0, 99, Middle, Fast, MaxEnemies, StartClock, FastStar)
    \/ StartGame
    \/ \E k \in DirectionKeys : KeyDown(k)
    \/ \E k \in DirectionKeys : KeyUp(k)

SpecKeys == InitKeys /\ [][NextKeys]_vars

\* SpecPass, slow enemies under fire: frames ShootInterval + 1 ms apart, the
\* fire key going down and up, and an enemy of the least speed (jitter 0)
\* spawned in the player's column in every run of loop that finds fewer than
\* PassEnemies alive
PassClock == StartClock + PassFrames * (ShootInterval + 1)
Slow == 0
Spawning(roll, max) == roll = 0 <=> Len(enemiesRef) < max
NextPass ==
    \/ \E roll \in Rolls :
          /\ Spawning(roll, PassEnemies)
          /\ Frame(ShootInterval + 1, roll, Middle, Slow, PassEnemies, PassClock, FastStar)
    \/ Render
    \/ \E roll \in Rolls :
          /\ Spawning(roll, PassEnemies)
          /\ Effect(0, roll, Middle, Slow, PassEnemies, PassClock, FastStar)
    \/ StartGame
    \/ KeyDown(" ")
    \/ KeyUp(" ")

SpecPass == Init /\ [][NextPass]_vars

\* SpecQuiz, the colour quiz: the target falls on the first, a middle or the
\* last block, and the player clicks one of QuizBlocks, before or after the
\* colours of the new round are rendered
QuizDraws == {0, Percent \div 2, Percent - 1}
QuizBlocks == {0, 12, 18, 35}
NextQuiz ==
    \/ \E r \in QuizDraws : QuizStartGame(r)
    \/ \E index \in QuizBlocks, r \in QuizDraws : HandleBlockClick(index, r, QuizRounds)
    \/ RenderColors

SpecQuiz == Init /\ [][NextQuiz]_vars

\* ------------------------------------------------- claims of the game (Spec)

\* A simulation step: a run of loop (by either specification) that simulates
SimStep ==
    /\ gameActive /\ playerRef # << >>
    /\ \/ \E dt \in Dts, roll \in Rolls :
             Frame(dt, roll, Middle, Fast, LivesEnemies, MaxClock, FastStar)
       \/ \E roll \in Rolls : Effect(0, roll, Middle, Fast, LivesEnemies, MaxClock, FastStar)

\* C2: the render of the enemy-player collision that takes lives to 0 leaves
\* gameActive false and isGameOver true, and from then on, until startGame
\* is invoked, no step changes what a simulation step writes: the enemies,
\* the projectiles, the last-shot time, the player, the queued updates, the
\* score, the lives, the level.
C2_GameOverHalts ==
    [][ /\ (phase = "render" /\ queue.lives > 0 /\ lives' = 0)
            => (~gameActive' /\ isGameOver')
        /\ (lives = 0 /\ ~queue.start)
            => \/ queue'.start
               \/ /\ ~gameActive /\ isGameOver
                  /\ UNCHANGED <<enemiesRef, bulletsRef, lastShootTimeRef, playerRef,
                                 queue, score, lives, level, gameActive, isGameOver>>
      ]_vars
\* The game is over and frames have come since: the countdown set by the last
\* collision stands still
C2_Witness ==
    /\ lives = 0 /\ ~gameActive /\ isGameOver /\ phase = "idle"
    /\ playerRef # << >> /\ playerRef[1].invincibility = InvincibilityFrames
    /\ clock > StartClock

\* C3: lives is an integer from 0 to 3 in every reachable state.
C3_LivesRange == lives \in 0 .. InitialLives
\* The last life has been lost, with a second enemy on the player
C3_Witness ==
    /\ lives = 0 /\ isGameOver /\ playerRef # << >>
    /\ \E i \in 1 .. Len(enemiesRef) :
          Near(enemiesRef[i].x, enemiesRef[i].y, playerRef[1].x, playerRef[1].y,
               PlayerHitRadius)

\* C7: in a simulation step the countdown of a positive invincibility goes
\* down by exactly one, a zero one stays zero, the countdown is never
\* negative, and a life is lost only in a step whose countdown is zero at the
\* collision check (it is then set to InvincibilityFrames).
C7_Invincibility ==
    [][ SimStep =>
          LET inv   == playerRef[1].invincibility
              check == IF inv > 0 THEN inv - 1 ELSE 0
              inv2  == playerRef'[1].invincibility
          IN  /\ inv >= 0 /\ inv2 >= 0
              /\ queue'.lives = 0 => inv2 = check
              /\ queue'.lives > 0 => (check = 0 /\ inv2 = InvincibilityFrames)
              /\ check > 0 => queue'.lives = 0
      ]_vars
\* Two enemies overlap the invincible player and no life is being lost
C7_Witness ==
    /\ gameActive /\ playerRef # << >>
    /\ playerRef[1].invincibility \in 1 .. InvincibilityFrames - 1
    /\ queue.lives = 0 /\ lives = 2 /\ Len(enemiesRef) = 2
    /\ \E i \in 1 .. Len(enemiesRef) :
          Near(enemiesRef[i].x, enemiesRef[i].y, playerRef[1].x, playerRef[1].y,
               PlayerHitRadius)

\* C9: gameActive and isGameOver change only in the render of startGame's
\* updates (to Active) and in the render of the collision that takes lives
\* to 0 (from Active to GameOver).
C9_Transitions ==
    [][ (gameActive' # gameActive \/ isGameOver' # isGameOver) =>
          /\ phase = "render"
          /\ \/ queue.start /\ ~gameActive /\ gameActive' /\ ~isGameOver'
             \/ /\ ~queue.start /\ queue.lives > 0 /\ lives > 0 /\ lives' = 0
                /\ gameActive /\ ~isGameOver /\ ~gameActive' /\ isGameOver'
      ]_vars
\* Both transitions have been taken, and a restart is on its way
C9_Witness == isGameOver /\ ~gameActive /\ lives = 0 /\ queue.start

\* C10: startGame leaves the enemy and projectile collections empty, the
\* last-shot time 0 and a fresh player at (width/2, height-120) with
\* invincibility 0, and the render of its updates commits score 0, lives 3,
\* level 1, gameActive, with those still in place.
Fresh ==
    /\ enemiesRef = << >> /\ bulletsRef = << >> /\ lastShootTimeRef = 0
    /\ playerRef = <<[x |-> canvas.width \div 2,
                      y |-> canvas.height - Px(120),
                      invincibility |-> 0]>>
C10_Restart ==
    [][ /\ queue'.start => Fresh'
        /\ queue.start =>
             /\ Fresh'
             /\ score' = 0 /\ lives' = 3 /\ level' = 1
             /\ gameActive' /\ ~isGameOver'
             /\ queue' = NoUpdates
      ]_vars
\* startGame has run after a game over that had scored
C10_Witness == queue.start /\ isGameOver /\ score > 0 /\ Fresh

\* C17: while the game is active, every simulation step is the run of a
\* scheduled animation-frame callback: it takes a pending frame request, and
\* no step is added when score, level or gameActive have changed between
\* two frames (when the effect re-runs).
C17_OncePerFrame ==
    [][ SimStep => (phase = "idle" /\ pendingFrames > 0) ]_vars

\* ------------------------------------------ claims of the projectiles' pass

\* A simulation step of SpecHits
SimStepHits ==
    /\ gameActive /\ playerRef # << >>
    /\ \/ \E roll \in Rolls :
            Frame(ShootInterval + 1, roll, Middle, Fast, HitsEnemies, HitsClock, FastStar)
       \/ \E roll \in Rolls : Effect(0, roll, Middle, Fast, HitsEnemies, HitsClock, FastStar)

\* The projectiles when the pass of a step begins (after the shooting logic)
\* and the enemies, each with its index as id
Tagged(seq) == [k \in 1 .. Len(seq) |-> [x |-> seq[k].x, y |-> seq[k].y, id |-> k]]
PassBullets(now) ==
    LET p1 == PlayerUpdate(playerRef[1], keysRef, canvas.width, canvas.height)
    IN  IF CanShoot(now)
        THEN Append(bulletsRef, [x |-> p1.x, y |-> p1.y - Px(30)])
        ELSE bulletsRef
Ids(seq) == {seq[k].id : k \in 1 .. Len(seq)}
\* The ids of the projectiles the forEach of the pass visits from index i
\* on, the only ones line 202 moves: a projectile that has slid into an
\* index already visited, or that a repeated splice(i, 1) of line 214 has
\* removed ahead of its turn, is not among them
RECURSIVE VisitedFrom(_, _, _, _)
VisitedFrom(bs, es, i, n) ==
    IF i > n \/ i > Len(bs) THEN {}
    ELSE LET r == BulletStep(bs, es, 0, i)
         IN  {bs[i].id} \cup VisitedFrom(r.bullets, r.enemies, i + 1, n)
Visited(bs, es) == VisitedFrom(Tagged(bs), Tagged(es), 1, Len(bs))
\* Where the pass over bs and es leaves the projectile bs[k]: 12 up if the
\* pass has visited it, where it was if not, in the collection or out of it
After(bs, es, k) ==
    IF k \in Visited(bs, es)
    THEN [x |-> bs[k].x, y |-> bs[k].y - Px(12)]
    ELSE [x |-> bs[k].x, y |-> bs[k].y]
\* The pairs (projectile, enemy) of the collections whose centres are less
\* than 25 apart where the pass has left the projectiles, the projectiles
\* that have left by the top aside
ClosePairs(bs, es) ==
    {pr \in (1 .. Len(bs)) \X (1 .. Len(es)) :
        LET b == After(bs, es, pr[1])
        IN  b.y >= 0 /\ Near(b.x, b.y, es[pr[2]].x, es[pr[2]].y, 25)}

\* C1: in a simulation step, every projectile and enemy of the collections
\* whose centres are less than 25 apart after the projectiles have moved are
\* both removed in that step, and the step adds 100 to the score once for
\* each such pair.
C1_AllPairsRemoved ==
    [][ SimStepHits =>
          LET bs == PassBullets(clock')
              r  == BulletsPass(Tagged(bs), Tagged(enemiesRef))
              cp == ClosePairs(bs, enemiesRef)
          IN  /\ \A pr \in cp : pr[1] \notin Ids(r.bullets) /\ pr[2] \notin Ids(r.enemies)
              /\ queue'.score = Cardinality(cp)
      ]_vars

\* The projectile or enemy of id k in what a pass has left
Left(left, k) == left[CHOOSE n \in 1 .. Len(left) : left[n].id = k]

\* C14: in a simulation step every projectile present when the pass begins
\* moves up by exactly 12 and keeps its x; the one whose y is then below 0
\* is removed, and the others are not touched by that removal.
C14_AllMoveUp ==
    [][ SimStepHits =>
          LET bs == PassBullets(clock')
              r  == BulletsPass(Tagged(bs), Tagged(enemiesRef))
          IN  /\ Len(bulletsRef') = Len(r.bullets)
              /\ \A k \in 1 .. Len(bs) :
                    /\ bs[k].y - Px(12) < 0 => k \notin Ids(r.bullets)
                    /\ k \in Ids(r.bullets) =>
                          /\ Left(r.bullets, k).x = bs[k].x
                          /\ Left(r.bullets, k).y = bs[k].y - Px(12)
      ]_vars

\* A simulation step of SpecLevel
SimStepLevel ==
    /\ gameActive /\ playerRef # << >>
    /\ \/ \E roll \in Rolls :
            Frame(ShootInterval + 1, roll, Middle, Fast, LevelEnemies, LevelClock, FastStar)
       \/ \E roll \in Rolls :
            Effect(0, roll, Middle, Fast, LevelEnemies, LevelClock, FastStar)

\* The projectiles that have some enemy less than 25 from them
Hitters(cp) == {pr[1] : pr \in cp}

\* C12: in a simulation step a projectile destroys at most one enemy and
\* adds at most 100 to the score, and is not matched again once removed: the
\* enemies the projectiles' pass removes, and the hundreds it adds to the
\* score, are at most as many as the projectiles that have an enemy less
\* than 25 from them.
C12_OneEnemyPerProjectile ==
    [][ SimStepLevel =>
          LET bs == PassBullets(clock')
              r  == BulletsPass(Tagged(bs), Tagged(enemiesRef))
              cp == ClosePairs(bs, enemiesRef)
          IN  /\ Len(enemiesRef) - Len(r.enemies) <= Cardinality(Hitters(cp))
              /\ queue'.score <= Cardinality(Hitters(cp))
      ]_vars

\* A simulation step of SpecPass
SimStepPass ==
    /\ gameActive /\ playerRef # << >>
    /\ \/ \E roll \in Rolls :
            Frame(ShootInterval + 1, roll, Middle, Slow, PassEnemies, PassClock, FastStar)
       \/ \E roll \in Rolls :
            Effect(0, roll, Middle, Slow, PassEnemies, PassClock, FastStar)

\* C13: a projectile leaves the collection in a simulation step only if it
\* has left by the top (y < 0 after its move) or is itself less than 25 from
\* an enemy; any other projectile is still in the collection after the step.
C13_RemovedForCause ==
    [][ SimStepPass =>
          LET bs == PassBullets(clock')
              r  == BulletsPass(Tagged(bs), Tagged(enemiesRef))
              cp == ClosePairs(bs, enemiesRef)
          IN  /\ Len(bulletsRef') = Len(r.bullets)
              /\ \A k \in 1 .. Len(bs) :
                    k \notin Ids(r.bullets) =>
                       \/ After(bs, enemiesRef, k).y < 0
                       \/ k \in Hitters(cp)
      ]_vars

\* ------------------------------------------------ claims of the enemies' pass

\* A simulation step of SpecLives with the draw roll of line 221
SimStepLives(roll) ==
    /\ gameActive /\ playerRef # << >>
    /\ \/ Frame(0, roll, Middle, Fast, LivesEnemies, StartClock, FastStar)
       \/ Effect(0, roll, Middle, Fast, LivesEnemies, StartClock, FastStar)

\* The enemies when the enemies' pass of a step begins (after the
\* projectiles' pass and the spawning), each with its index as id, and the
\* player that pass meets
TaggedEnemies(seq) ==
    [k \in 1 .. Len(seq) |->
        [x |-> seq[k].x, y |-> seq[k].y, speed |-> seq[k].speed, id |-> k]]
PassEnemiesOf(now, roll, u, jit) ==
    LET bp == BulletsPass(PassBullets(now), enemiesRef)
    IN  IF roll < SpawnBasePct + level
        THEN Append(bp.enemies, NewEnemy(canvas.width, level, u, jit))
        ELSE bp.enemies
PassPlayer == PlayerUpdate(playerRef[1], keysRef, canvas.width, canvas.height)

\* C15: in a simulation step every enemy present when the enemies' pass
\* begins moves down by exactly its own speed and keeps its x; the one whose
\* y is then above the canvas height is removed, and a step that removes
\* only such enemies changes neither the score nor the lives.
C15_AllMoveDown ==
    [][ \A roll \in Rolls :
          SimStepLives(roll) =>
            LET es == PassEnemiesOf(clock', roll, Middle, Fast)
                r  == EnemiesPass(TaggedEnemies(es), PassPlayer, canvas.height)
            IN  /\ Len(enemiesRef') = Len(r.enemies)
                /\ \A k \in 1 .. Len(es) :
                      /\ es[k].y + es[k].speed > canvas.height => k \notin Ids(r.enemies)
                      /\ k \in Ids(r.enemies) =>
                            /\ Left(r.enemies, k).x = es[k].x
                            /\ Left(r.enemies, k).y = es[k].y + es[k].speed
                /\ (\A k \in 1 .. Len(es) :
                       k \notin Ids(r.enemies) => es[k].y + es[k].speed > canvas.height)
                     => queue'.lives = 0 /\ queue'.score = 0
      ]_vars

\* The enemies of es that, moved down by their speed, are still on a canvas
\* of height ch and less than 40 from the player p
OnPlayer(es, p, ch) ==
    {k \in 1 .. Len(es) :
        /\ es[k].y + es[k].speed <= ch
        /\ Near(es[k].x, es[k].y + es[k].speed, p.x, p.y, PlayerHitRadius)}

\* C16: in a simulation step whose invincibility is zero at the enemies'
\* pass and that has some enemy less than 40 from the player after the
\* enemies have moved, exactly one such enemy is removed, one life is lost
\* and the invincibility is set to 100; in any other step no life is lost.
C16_OneCollision ==
    [][ \A roll \in Rolls :
          SimStepLives(roll) =>
            LET es   == PassEnemiesOf(clock', roll, Middle, Fast)
                p    == PassPlayer
                r    == EnemiesPass(TaggedEnemies(es), p, canvas.height)
                on   == OnPlayer(es, p, canvas.height)
                gone == {k \in 1 .. Len(es) :
                           k \notin Ids(r.enemies) /\ es[k].y + es[k].speed <= canvas.height}
            IN  /\ Len(enemiesRef') = Len(r.enemies)
                /\ IF p.invincibility = 0 /\ on # {}
                   THEN /\ \E k \in on : gone = {k}
                        /\ queue'.lives = 1
                        /\ playerRef'[1].invincibility = InvincibilityFrames
                   ELSE /\ queue'.lives = 0
                        /\ gone = {}
      ]_vars

\* ------------------------------------------------------ claims of the level

\* C4: level = floor(score / 2000) + 1 in every reachable state.
C4_LevelOfScore == level = score \div LevelThreshold + 1

\* ----------------------------------------------------- claims of the player

\* A simulation step of SpecMove
SimStepMove ==
    /\ gameActive /\ playerRef # << >>
    /\ \/ Frame(0, 99, Middle, Fast, MaxEnemies, StartClock, FastStar)
       \/ Effect(0, 99, Middle, Fast, MaxEnemies, StartClock, FastStar)

\* C5: after the Player.update of a simulation step, 30 <= x <= width - 30
\* and 30 <= y <= height - 30, for the canvas of that frame.
C5_InsideMargins ==
    [][ SimStepMove =>
          LET p == playerRef'[1]
          IN  /\ Px(30) <= p.x /\ p.x <= canvas.width - Px(30)
              /\ Px(30) <= p.y /\ p.y <= canvas.height - Px(30)
      ]_vars
\* C5, amended: after the Player.update of a simulation step,
\* 30 <= x <= max(30, width - 30) and 30 <= y <= max(30, height - 30): inside
\* the margins of a canvas at least 60 wide and high, and at 30 on a canvas
\* narrower or lower than that.
C5_InsideMarginsOrPinned ==
    [][ SimStepMove =>
          LET p == playerRef'[1]
          IN  /\ Px(30) <= p.x /\ p.x <= Max(Px(30), canvas.width - Px(30))
              /\ Px(30) <= p.y /\ p.y <= Max(Px(30), canvas.height - Px(30))
              /\ canvas.width < Px(60) => p.x = Px(30)
              /\ canvas.height < Px(60) => p.y = Px(30)
      ]_vars
\* On the large canvas the player, touched to beyond the right and bottom
\* margins, has been brought back to them with the keys still pushing out
C5_Witness ==
    /\ gameActive /\ canvas = Window0 /\ playerRef # << >>
    /\ playerRef[1].x = canvas.width - Px(30)
    /\ playerRef[1].y = canvas.height - Px(30)
    /\ {"ArrowRight", "ArrowDown"} \subseteq keysRef

\* ----------------------------------------------------- claims of the firing

\* 1 when one of the two keys of a direction is held, 0 otherwise
Held(a, b) == IF a \in keysRef \/ b \in keysRef THEN 1 ELSE 0

\* C18: the Player.update of a simulation step displaces the player, before
\* the clamping, by 8 * (right - left) on x and 8 * (down - up) on y, each
\* direction being 1 when either of its two keys is held and 0 otherwise:
\* the axes are independent, a diagonal is not normalized, opposite
\* directions cancel, both keys of a direction move by 8 only.
C18_Displacement ==
    [][ SimStepMove =>
          LET p  == playerRef[1]
              x1 == p.x + Px(8) * (Held("d", "ArrowRight") - Held("a", "ArrowLeft"))
              y1 == p.y + Px(8) * (Held("s", "ArrowDown") - Held("w", "ArrowUp"))
          IN  /\ playerRef'[1].x = Max(Px(30), Min(canvas.width - Px(30), x1))
              /\ playerRef'[1].y = Max(Px(30), Min(canvas.height - Px(30), y1))
      ]_vars
\* A step has moved the player from the middle column to the right and a row
\* down, away from the margins, with both right keys and one down key held
C18_Witness ==
    /\ gameActive /\ phase = "idle"
    /\ keysRef = {"d", "ArrowRight", "s"}
    /\ playerRef = <<[x |-> Px(54), y |-> Px(38), invincibility |-> 0]>>

\* A simulation step of SpecFire
SimStepFire ==
    /\ gameActive /\ playerRef # << >>
    /\ \/ \E dt \in FireDts : Frame(dt, 99, Middle, Fast, MaxEnemies, FireClock, FastStar)
       \/ Effect(0, 99, Middle, Fast, MaxEnemies, FireClock, FastStar)

\* C6: in a simulation step at time now with the fire input held (space or
\* touch), no projectile is added while now - lastShot <= 150; once more than
\* 150 ms have passed exactly one projectile is added, at (player.x,
\* player.y - 30) of the player as updated in that step, ahead of the
\* projectiles' pass, and lastShot becomes now.  Without the fire input
\* nothing is added and lastShot stays.
C6_FireGating ==
    [][ SimStepFire =>
          LET now  == clock'
              held == " " \in keysRef \/ "isTouch" \in keysRef
              p    == playerRef'[1]
              shot == [x |-> p.x, y |-> p.y - Px(30)]
          IN  IF held /\ now - lastShootTimeRef > 150
              THEN /\ lastShootTimeRef' = now
                   /\ bulletsRef' = BulletsPass(Append(bulletsRef, shot), enemiesRef).bullets
              ELSE /\ lastShootTimeRef' = lastShootTimeRef
                   /\ bulletsRef' = BulletsPass(bulletsRef, enemiesRef).bullets
      ]_vars
\* Two projectiles are in flight, 12 apart: the second was fired in the frame
\* that came 151 ms after the first shot
C6_Witness ==
    /\ gameActive /\ keysRef # {}
    /\ lastShootTimeRef = StartClock + ShootInterval + 1
    /\ clock = lastShootTimeRef
    /\ Len(bulletsRef) = 2
    /\ bulletsRef[1].y = bulletsRef[2].y - Px(12)

\* --------------------------------------------------- claims of the spawning

\* The enemies alive were spawned at the level of the state (SpecSpawn)
SpeedAt(lvl, jit) == NewEnemy(canvas.width, lvl, Leftmost, jit).speed

\* C8: the speed of a spawned enemy is 3 + jitter + 0.5 * level, for a fixed
\* jitter strictly increasing in the level, and every enemy spawned at
\* level 5 is faster than every enemy spawned at level 1.
C8_Level5Faster ==
    \A i \in 1 .. Len(enemiesRef) :
        LET e == enemiesRef[i]
        IN  /\ \E j \in Jits : e.speed = Px(3) + j + level
            /\ \A j \in Jits, l \in Levels :
                   (e.speed = SpeedAt(level, j) /\ l < level) => SpeedAt(l, j) < e.speed
            /\ level = 5 => \A j \in Jits : e.speed > SpeedAt(1, j)
            /\ level = 1 => \A j \in Jits : e.speed < SpeedAt(5, j)
\* C8, amended: the speed of a spawned enemy is 3 + jitter + 0.5 * level in
\* double arithmetic, where 3 + jitter lies between 3 and 5, both included;
\* for a fixed jitter it is strictly increasing in the level, and every enemy
\* spawned at level 5 is at least as fast as every enemy spawned at level 1.
C8_Level5NotSlower ==
    \A i \in 1 .. Len(enemiesRef) :
        LET e == enemiesRef[i]
        IN  /\ \E j \in Jits : e.speed = Px(3) + j + level
            /\ \A j \in Jits, l \in Levels :
                   (e.speed = SpeedAt(level, j) /\ l < level) => SpeedAt(l, j) < e.speed
            /\ level = 5 => \A j \in Jits : e.speed >= SpeedAt(1, j)
            /\ level = 1 => \A j \in Jits : e.speed <= SpeedAt(5, j)
\* The slowest enemy of level 5 is alive: its speed, 5.5, is that of the
\* fastest enemy of level 1
C8_Witness ==
    /\ level = 5 /\ enemiesRef # << >>
    /\ enemiesRef[1].speed = Px(3) + 5
    /\ enemiesRef[1].speed = SpeedAt(1, 2 * SubPx)
    /\ enemiesRef[1].y > 0

\* ------------------------------------------------ claims of the colour quiz

\* C11: the grid of the colour quiz is 5x5 at game start and grows with the
\* score: its size is always one of 5, 6, 7; it is 5 below score 15, 6
\* between the scores 15 and 30 and 7 above score 30 (at the scores 15 and
\* 30 themselves either size of the step is accepted).
C11_GridGrows ==
    LET g  == gameState.gridSize
        sc == gameState.score
    IN  /\ g \in {5, 6, 7}
        /\ sc < 15 => g = 5
        /\ (sc > 15 /\ sc < 30) => g = 6
        /\ sc > 30 => g = 7

\* ------------------------------------------- claims of the spawn position

\* A simulation step of SpecPlace
SimStepPlace ==
    /\ gameActive /\ playerRef # << >>
    /\ \/ \E roll \in Rolls, u \in Columns :
            Frame(0, roll, u, Fast, PlaceEnemies, StartClock, FastStar)
       \/ \E roll \in Rolls, u \in Columns :
            Effect(0, roll, u, Fast, PlaceEnemies, StartClock, FastStar)

\* The enemy e has come from y = -60 by steps of its speed
FromTheTop(e) ==
    /\ e.y >= 0 - Px(60)
    /\ (e.y + Px(60)) % e.speed = 0

\* C19: a simulation step spawns at most one enemy, and a spawned enemy
\* starts at y = -60 with 30 <= x < width - 30 for the canvas width.
C19_SpawnInside ==
    [][ SimStepPlace =>
          /\ Len(enemiesRef') <= Len(enemiesRef) + 1
          /\ \A i \in 1 .. Len(enemiesRef') :
                LET e == enemiesRef'[i]
                IN  /\ FromTheTop(e)
                    /\ Px(30) <= e.x /\ e.x < canvas.width - Px(30)
      ]_vars
\* C19, amended: a simulation step spawns at most one enemy, and a spawned
\* enemy starts at y = -60 with x between 30 and width - 30, both included
\* (in that order on a canvas at least 60 wide, in the other order on a
\* narrower one).
C19_SpawnBetween ==
    [][ SimStepPlace =>
          /\ Len(enemiesRef') <= Len(enemiesRef) + 1
          /\ \A i \in 1 .. Len(enemiesRef') :
                LET e == enemiesRef'[i]
                IN  /\ FromTheTop(e)
                    /\ Min(Px(30), canvas.width - Px(30)) <= e.x
                    /\ e.x <= Max(Px(30), canvas.width - Px(30))
      ]_vars
\* Two enemies are alive on the wide canvas, the second just spawned in the
\* last column, at x = width - 30
C19_Witness ==
    /\ gameActive /\ canvas = WindowLow /\ Len(enemiesRef) = 2
    /\ enemiesRef[2].x = canvas.width - Px(30)
    /\ enemiesRef[2].y = enemiesRef[2].speed - Px(60)

\* ---------------------------------------------------- claims of the stars

\* A run of loop of SpecStars, the game active or not
LoopStars ==
    \/ Frame(0, 99, Middle, Fast, MaxEnemies, StartClock, SlowStar)
    \/ Effect(0, 99, Middle, Fast, MaxEnemies, StartClock, SlowStar)

\* The stars ss with their indices as ids, and without
TaggedStars(ss) ==
    [k \in 1 .. Len(ss) |-> [x |-> ss[k].x, y |-> ss[k].y, s |-> ss[k].s, id |-> k]]
Untagged(ss) ==
    [k \in 1 .. Len(ss) |-> [x |-> ss[k].x, y |-> ss[k].y, s |-> ss[k].s]]

\* C20: there are never more than 100 stars; a run of loop, the game active
\* or not, creates one star when fewer than 100 exist and none otherwise,
\* and removes a star only when its move has taken it past the bottom edge
\* (y > canvas height).
C20_StarCap ==
    [][ LoopStars =>
          LET one  == IF Len(starsRef) < 100
                      THEN Append(starsRef, NewStar(canvas.width, SlowStar))
                      ELSE starsRef
              left == StarsFrom(TaggedStars(one), canvas.height, 1, Len(one))
          IN  /\ Len(starsRef) <= 100 /\ Len(starsRef') <= 100
              /\ starsRef' = Untagged(left)
              /\ \A k \in 1 .. Len(one) :
                    k \notin Ids(left) => one[k].y + one[k].s > canvas.height
      ]_vars
\* The sky is full while the game is active, and its first star is about to
\* leave
C20_Witness ==
    /\ gameActive /\ Len(starsRef) = 100
    /\ starsRef[1].y + starsRef[1].s > canvas.height

\* ----------------------------------------- claims of the animation frames

\* C21: across the re-runs of the game-loop effect at most one
\* animation-frame callback is pending at any time: the frame the last loop
\* requested is cancelled before the new loop starts.
C21_OnePending == pendingFrames <= 1
\* The effect has re-run in mid-game, after a render that changed the score,
\* and its loop has left its frame requested
C21_Witness ==
    /\ gameActive /\ score > 0 /\ phase = "idle"
    /\ pendingFrames = 1

\* ------------------------------------------------------ claims of the score

\* C22: the score is a non-negative multiple of 100, 100 times the enemies
\* that projectile hits have removed since the last startGame: a simulation
\* step queues one setScore for each enemy its projectiles' pass removes and
\* none for a collision with the player, an enemy leaving by the bottom or a
\* projectile leaving by the top; the score changes only in a render, which
\* adds 100 for each queued setScore, to 0 if startGame's updates are
\* rendered and to the score otherwise, and so never takes it down during a
\* game.
C22_ScoreCountsHits ==
    /\ [](score >= 0 /\ score % 100 = 0)
    /\ [][ /\ \/ ~gameActive \/ playerRef = << >>
              \/ LET r == BulletsPass(Tagged(PassBullets(clock')), Tagged(enemiesRef))
                 IN  queue'.score = Len(enemiesRef) - Len(r.enemies)
              \/ ~SimStep
           /\ queue'.score > queue.score => SimStep
           /\ score' # score => Render
           /\ Render =>
                 /\ score' = (IF queue.start THEN 0 ELSE score) + 100 * queue.score
                 /\ (~queue.start => score' >= score)
       ]_vars
\* In one game a projectile has hit an enemy and an enemy has hit the player
C22_Witness ==
    /\ gameActive /\ phase = "idle"
    /\ score > 0 /\ lives < InitialLives

\* ------------------------------------------------- claims of the game flags

\* C23: gameActive and isGameOver are never both true, and they are both
\* false only before the first startGame: until it has been invoked (no
\* player exists yet) or while the render of its updates is still to come.
C23_ExclusiveFlags ==
    /\ ~(gameActive /\ isGameOver)
    /\ (~gameActive /\ ~isGameOver) =>
          \/ playerRef = << >>
          \/ queue.start /\ phase = "render"
\* A game has ended: the game-over screen is shown and no frame is being
\* rendered
C23_Witness ==
    /\ isGameOver /\ ~gameActive /\ phase = "idle"
    /\ playerRef # << >> /\ queue = NoUpdates

\* ------------------------------------------- claims of the colour quiz's clicks

\* C24: in the colour quiz a click on the target block while playing raises
\* the score by exactly 1 and keeps the game playing; a click on any other
\* block ends the game (isPlaying false, isGameOver true) with the score
\* unchanged; after that every block click is a no-op, and the score does
\* not change until startGame resets the score to 0 and the grid size to 5.
\* The target block is that of the colours as rendered, which are those of
\* the round before while the setColors of the new round waits.
C24_Clicks ==
    [][ /\ \A index \in QuizBlocks, r \in QuizDraws :
              HandleBlockClick(index, r, QuizRounds) =>
                 IF ~gameState.isPlaying
                 THEN UNCHANGED quizVars
                 ELSE IF index = colors[1].targetIndex
                 THEN /\ gameState'.score = gameState.score + 1
                      /\ gameState'.isPlaying /\ ~gameState'.isGameOver
                 ELSE /\ gameState'.score = gameState.score
                      /\ ~gameState'.isPlaying /\ gameState'.isGameOver
        /\ (gameState.isGameOver /\ gameState' # gameState) =>
              /\ \E r \in QuizDraws : QuizStartGame(r)
              /\ gameState'.score = 0 /\ gameState'.gridSize = 5
              /\ gameState'.isPlaying /\ ~gameState'.isGameOver
      ]_vars
\* A game of the quiz has ended with a wrong click after correct ones, the
\* last of them so shortly before that the colours of its round are still
\* to be rendered, and the blocks are still there to be clicked
C24_Witness ==
    /\ gameState.isGameOver /\ ~gameState.isPlaying
    /\ gameState.score > 0 /\ colors # << >> /\ colorsQueue # << >>
====
